---- MODULE Spec2Model ----
(***************************************************************************)
(* The three pipeline tasks of src/tasks.py: DummyTask, DownloadData and   *)
(* ProcessData, each a linear run() over the output directory, the remote  *)
(* TAP job and the process's logger.                                       *)
(*                                                                         *)
(* A file is a record [exists, data]; data is a sequence of the units the  *)
(* file holds.  A VOTable document is the sequence <<field names, row 1,   *)
(* ..., row N>>: its FIELD declarations followed by its table rows.        *)
(***************************************************************************)
EXTENDS Integers, Sequences, FiniteSets, TLC

\* ------------------------------------------------------------------ bounds
\* Largest number of rows of a table the remote service answers with.
MaxRows == 2
\* How often a finished task's run() may be invoked again (SpecRerun).
MaxReruns == 2

\* ------------------------------------------------------------- the inputs
Tasks == {"DummyTask", "DownloadData", "ProcessData"}

\* The value of the `query` parameter: not set at all, empty, or an ADQL text.
NoQuery == "<unset>"
QueryValues == {NoQuery, "", "SELECT"}

\* The field lists a result table may have: the expected three columns (in
\* two orders), one column under another name, one column absent.
Schemas ==
    { <<"ra_floor", "dec_floor", "nb">>,
      <<"nb", "ra_floor", "dec_floor">>,
      <<"ra_floor", "dec_floor", "n">>,
      <<"ra_floor", "dec_floor">> }

\* The rows a table is built from; rows tie on every column somewhere.
RowValues == { <<0, 1, 0>>, <<1, 0, 0>>, <<1, 1, 1>>, <<0, 0, 1>> }

RECURSIVE SeqsUpTo(_, _)
SeqsUpTo(S, n) ==
    IF n = 0 THEN { <<>> }
    ELSE LET shorter == SeqsUpTo(S, n - 1)
         IN  shorter \cup { Append(s, x) : s \in { q \in shorter : Len(q) = n - 1 }, x \in S }

\* A row of a table with k fields.
Cut(row, k) == [i \in 1..k |-> row[i]]

\* The documents the remote service may answer with: a VOTable of up to
\* MaxRows rows under one of the schemas, or a body that is no VOTable.
VOTables ==
    { <<schema>> \o [i \in 1..Len(rows) |-> Cut(rows[i], Len(schema))] :
        schema \in Schemas, rows \in SeqsUpTo(RowValues, MaxRows) }
Payloads == VOTables \cup { <<>> }

\* The element ids mpld3 gives a figure: "el" + os.getpid() + id(fig).
ElementIds == {"el1", "el2"}

\* ---------------------------------------------------------------- state
VARIABLES
    query,          \* the `query` parameter of the pipeline
    remotePayload,  \* what the remote service answers this query with
    fs,             \* the output directory: path -> file
    pc,             \* task -> where its run() stands
    job,            \* the AsyncJob of the running DownloadData
    result,         \* DownloadData.run's local `result`
    events,         \* what the running DownloadData did, in order
    t,              \* ProcessData.run's local `t`
    gaiadf,         \* ProcessData.run's local `gaiadf`
    profile,        \* ProcessData.run's local `profile`
    fig,            \* ProcessData.run's figure: the plotted series
    log,            \* the records the logger received
    writes,         \* writes to ProcessData's output in this execution
    first,          \* task -> the input and output of its first finished run
    reruns          \* how many times a finished run() was invoked again

vars == <<query, remotePayload, fs, pc, job, result, events, t, gaiadf,
          profile, fig, log, writes, first, reruns>>

dlLocals == <<job, result, events>>
prLocals == <<t, gaiadf, profile, fig, log, writes>>

\* ----------------------------------------------------------------- files
NoFile == [exists |-> FALSE, data |-> <<>>]

\* open(path, "w") and open(path, "wb"): the file is created or truncated.
OpenAppend(file) == [exists |-> TRUE, data |-> file.data]
OpenTruncate(file) == [exists |-> TRUE, data |-> <<>>]

\* file.write(data)
FileWriteFirstUnit(file, data) ==
    [file EXCEPT !.data = @ \o (IF data = <<>> THEN <<>> ELSE <<Head(data)>>)]
FileWrite(file, data) == [file EXCEPT !.data = @ \o data]

\* output(): the path of a task's output under settings.OUTPUT_PATH.
OutputPath(task) ==
    CASE task = "DummyTask" -> "dummyData_%s.vot"
      [] task = "DownloadData" -> "simulatedData_%s.vot"
      [] task = "ProcessData" -> "%s"

Paths == { OutputPath(task) : task \in Tasks }

\* requires(): the tasks a task depends on.
RequiresSkipsDummy(task) == IF task = "ProcessData" THEN {"DownloadData"} ELSE {}
Requires(task) ==
    CASE task = "DummyTask" -> {}
      [] task = "DownloadData" -> {"DummyTask"}
      [] task = "ProcessData" -> {"DownloadData"}

\* input(): the output of the required task.
InputPath(task) == OutputPath(CHOOSE d \in Requires(task) : TRUE)

\* A task is complete once its output exists.
Complete(task) == fs[OutputPath(task)].exists

Running(task) == pc[task] \notin {"idle", "done", "failed"}

\* The scheduler starts a pending task whose requirements have run and are
\* complete and whose output is not there yet; a task executes at most once
\* per pipeline run.
Schedule(task, start) ==
    /\ pc[task] = "idle"
    /\ \A d \in Requires(task) : Complete(d) /\ ~Running(d)
    /\ ~Complete(task)
    /\ pc' = [pc EXCEPT ![task] = start]

\* History: the input and output of the first finished run of a task.
Remember(task, input, output) ==
    IF first[task].set THEN first
    ELSE [first EXCEPT ![task] = [set |-> TRUE, input |-> input, output |-> output]]

\* ------------------------------------------------------------- DummyTask
Marker == <<"dummyStuff">>

DummyStart ==
    /\ Schedule("DummyTask", "sleep")
    /\ UNCHANGED <<query, remotePayload, fs, dlLocals, prLocals, first, reruns>>

\* time.sleep(3); with open(path, "w") as outFile: outFile.write("dummyStuff")
DummyRun ==
    /\ pc["DummyTask"] = "sleep"
    /\ LET path == OutputPath("DummyTask")
           file == FileWrite(OpenTruncate(fs[path]), Marker)
       IN  /\ fs' = [fs EXCEPT ![path] = file]
           /\ first' = Remember("DummyTask", <<>>, file.data)
    /\ pc' = [pc EXCEPT !["DummyTask"] = "done"]
    /\ UNCHANGED <<query, remotePayload, dlLocals, prLocals, reruns>>

\* ---------------------------------------------------------- DownloadData
\* The remote-job steps of a complete execution, in the order of run().
JobSteps == <<"open", "run", "fetch", "write", "delete">>

NoJob == [phase |-> "NONE", result |-> <<>>]

\* `not hasattr(self, 'query') or not self.query`
QueryUnsetOnly(q) == q = NoQuery
QueryMissing(q) == q = NoQuery \/ q = ""

\* The phases in which the remote job has ended.
Terminal(phase) == phase \in {"COMPLETED", "ERROR"}

\* AsyncJob.run's wait: the poll loop ends once the job has ended.
WaitOverEarly(phase) == phase # "PENDING"
WaitOver(phase) == Terminal(phase)

\* AsyncJob.run's raise_exception: a failed job raises.
NeverRaises(phase) == FALSE
RaiseException(phase) == phase = "ERROR"

DownloadStart ==
    /\ Schedule("DownloadData", "check")
    /\ job' = NoJob
    /\ result' = <<>>
    /\ events' = <<>>
    /\ UNCHANGED <<query, remotePayload, fs, prLocals, first, reruns>>

\* if not hasattr(self, 'query') or not self.query: raise Exception(...)
DownloadCheck ==
    /\ pc["DownloadData"] = "check"
    /\ pc' = [pc EXCEPT !["DownloadData"] =
                IF QueryMissing(query) THEN "failed" ELSE "open"]
    /\ UNCHANGED <<query, remotePayload, fs, dlLocals, prLocals, first, reruns>>

\* gacs_tap_conn = AsyncJob(target, self.query, poll_interval=1)
DownloadOpenJob ==
    /\ pc["DownloadData"] = "open"
    /\ job' = [phase |-> "PENDING", result |-> <<>>]
    /\ events' = Append(events, "open")
    /\ pc' = [pc EXCEPT !["DownloadData"] = "run"]
    /\ UNCHANGED <<query, remotePayload, fs, result, prLocals, first, reruns>>

\* gacs_tap_conn.run(), start: the job is submitted for execution.
DownloadSubmit ==
    /\ pc["DownloadData"] = "run"
    /\ job' = [job EXCEPT !.phase = "EXECUTING"]
    /\ events' = Append(events, "run")
    /\ pc' = [pc EXCEPT !["DownloadData"] = "wait"]
    /\ UNCHANGED <<query, remotePayload, fs, result, prLocals, first, reruns>>

\* gacs_tap_conn.run(), wait: one poll of the job's phase; the loop sleeps
\* poll_interval and polls again while the job has not ended.
DownloadPoll ==
    /\ pc["DownloadData"] = "wait"
    /\ pc' = [pc EXCEPT !["DownloadData"] =
                IF WaitOver(job.phase) THEN "raise" ELSE "wait"]
    /\ UNCHANGED <<query, remotePayload, fs, dlLocals, prLocals, first, reruns>>

\* gacs_tap_conn.run(), raise_exception: a remote failure aborts the stage.
DownloadRaise ==
    /\ pc["DownloadData"] = "raise"
    /\ pc' = [pc EXCEPT !["DownloadData"] =
                IF RaiseException(job.phase) THEN "failed" ELSE "fetch"]
    /\ UNCHANGED <<query, remotePayload, fs, dlLocals, prLocals, first, reruns>>

\* result = gacs_tap_conn.open_result()
DownloadFetch ==
    /\ pc["DownloadData"] = "fetch"
    /\ result' = job.result
    /\ events' = Append(events, "fetch")
    /\ pc' = [pc EXCEPT !["DownloadData"] = "write"]
    /\ UNCHANGED <<query, remotePayload, fs, job, prLocals, first, reruns>>

\* with open(self.output().path, "wb") as outFile: outFile.write(result.content)
DownloadWrite ==
    /\ pc["DownloadData"] = "write"
    /\ LET path == OutputPath("DownloadData")
       IN  fs' = [fs EXCEPT ![path] = FileWrite(OpenTruncate(fs[path]), result)]
    /\ events' = Append(events, "write")
    /\ pc' = [pc EXCEPT !["DownloadData"] = "delete"]
    /\ UNCHANGED <<query, remotePayload, job, result, prLocals, first, reruns>>

\* A run() that returns without releasing the job.
DownloadNoDelete ==
    /\ pc["DownloadData"] = "delete"
    /\ first' = Remember("DownloadData", result, fs[OutputPath("DownloadData")].data)
    /\ pc' = [pc EXCEPT !["DownloadData"] = "done"]
    /\ UNCHANGED <<query, remotePayload, fs, dlLocals, prLocals, reruns>>

\* gacs_tap_conn.delete()
DownloadDelete ==
    /\ pc["DownloadData"] = "delete"
    /\ job' = [job EXCEPT !.phase = "DELETED"]
    /\ events' = Append(events, "delete")
    /\ first' = Remember("DownloadData", result, fs[OutputPath("DownloadData")].data)
    /\ pc' = [pc EXCEPT !["DownloadData"] = "done"]
    /\ UNCHANGED <<query, remotePayload, fs, result, prLocals, reruns>>

\* The remote service ends an executing job: with the query's result, or
\* with an error.  Nothing obliges it to.
RemoteComplete ==
    /\ job.phase = "EXECUTING"
    /\ job' = [phase |-> "COMPLETED", result |-> remotePayload]
    /\ UNCHANGED <<query, remotePayload, fs, pc, result, events, prLocals, first, reruns>>

RemoteFail ==
    /\ job.phase = "EXECUTING"
    /\ job' = [job EXCEPT !.phase = "ERROR"]
    /\ UNCHANGED <<query, remotePayload, fs, pc, result, events, prLocals, first, reruns>>

\* ----------------------------------------------------------- ProcessData
Raised == [ok |-> FALSE]
Value(v) == [ok |-> TRUE, val |-> v]

Range(seq) == { seq[i] : i \in DOMAIN seq }

RECURSIVE Sum(_)
Sum(seq) == IF seq = <<>> THEN 0 ELSE Head(seq) + Sum(Tail(seq))

\* Table.read(path, format='votable'): the fields and rows of the document;
\* a document without its field declarations does not parse.
TableRead(doc) ==
    IF doc = <<>> THEN Raised
    ELSE Value([colnames |-> Head(doc), rows |-> Tail(doc)])

\* The loop over t.as_array(): each row's fields 0, 1 and 2 as numbers; a
\* row with fewer fields raises IndexError.  np.ma.filled(Arr) is an N x 3
\* array, and the one-dimensional empty array when Arr is empty.
BuildMatrix(table) ==
    IF \E i \in DOMAIN table.rows : Len(table.rows[i]) < 3 THEN Raised
    ELSE Value([ndim |-> IF table.rows = <<>> THEN 1 ELSE 2,
                rows |-> [i \in DOMAIN table.rows |->
                            <<table.rows[i][1], table.rows[i][2], table.rows[i][3]>>]])

\* pd.DataFrame(b, columns=t.colnames): a one-dimensional array is taken as
\* one column; the number of columns must be the number of names.
DataFrame(b, columns) ==
    LET width == IF b.ndim = 1 THEN 1 ELSE 3
    IN  IF width # Len(columns) THEN Raised
        ELSE Value([columns |-> columns, rows |-> b.rows])

\* The position of a column name, 0 when there is no such column.
ColumnIndex(columns, name) ==
    IF name \in Range(columns)
    THEN CHOOSE i \in DOMAIN columns : columns[i] = name
    ELSE 0

gaiamagcols == <<"ra_floor", "dec_floor", "nb">>

\* df[gaiamagcols]: the named columns, KeyError when one is not there.
SelectPresentColumns(df, names) ==
    LET present == SelectSeq(names, LAMBDA n : n \in Range(df.columns))
    IN  Value([columns |-> present,
               rows |-> [i \in DOMAIN df.rows |->
                           [k \in DOMAIN present |->
                              df.rows[i][ColumnIndex(df.columns, present[k])]]]])
SelectColumns(df, names) ==
    IF \E k \in DOMAIN names : names[k] \notin Range(df.columns) THEN Raised
    ELSE Value([columns |-> names,
                rows |-> [i \in DOMAIN df.rows |->
                            [k \in DOMAIN names |->
                               df.rows[i][ColumnIndex(df.columns, names[k])]]]])

\* t['name']: the column of the table under that name.
Column(table, name) ==
    [i \in DOMAIN table.rows |-> table.rows[i][ColumnIndex(table.colnames, name)]]

\* The index sequence with index i put behind every index whose key is not
\* larger than key[i].
RECURSIVE InsertIndex(_, _, _)
InsertIndex(idx, i, key) ==
    IF idx = <<>> THEN <<i>>
    ELSE IF key[idx[Len(idx)]] <= key[i] THEN Append(idx, i)
    ELSE Append(InsertIndex(SubSeq(idx, 1, Len(idx) - 1), i, key), idx[Len(idx)])

RECURSIVE ArgsortUpTo(_, _)
ArgsortUpTo(key, n) ==
    IF n = 0 THEN <<>> ELSE InsertIndex(ArgsortUpTo(key, n - 1), n, key)

\* count.argsort(): the indices that sort the column ascending (numpy sorts
\* arrays this short by insertion).
NoSort(key) == [i \in DOMAIN key |-> i]
Argsort(key) == ArgsortUpTo(key, Len(key))

\* x[idx]
Take(column, idx) == [k \in DOMAIN idx |-> column[idx[k]]]

\* plt.scatter(x, y, c=count, ...): one point per element.
Scatter(x, y, count) == [k \in DOMAIN x |-> [x |-> x[k], y |-> y[k], c |-> count[k]]]

\* pandas_profiling.ProfileReport(gaiadf).html
ProfileReport(df) == [html |-> [nvar |-> Len(df.columns), nobs |-> Len(df.rows)]]

\* gaiadf.describe().to_html(...)
Describe(df) ==
    [html |-> [k \in DOMAIN df.columns |->
                 [name |-> df.columns[k],
                  count |-> Len(df.rows),
                  sum |-> Sum([i \in DOMAIN df.rows |-> df.rows[i][k]])]]]

AnalysisContext(df, prof) ==
    [gacs_dfdescription |-> Describe(df).html, pandas_profiling |-> prof.html]

\* mpld3.fig_to_dict(fig): the figure's data series under the id mpld3 gives
\* the figure.
FigToDict(figure, elid) == [id |-> elid, data |-> figure]

\* What json.dump writes to the output.
FigureAndContext(figure, context, elid) ==
    <<[id |-> elid, data |-> figure, context |-> context]>>
Dumped(figure, context, elid) == <<FigToDict(figure, elid)>>

LogEntry(label, kind, val) == [label |-> label, kind |-> kind, val |-> val]

ProcessStart ==
    /\ Schedule("ProcessData", "read")
    /\ writes' = 0
    /\ UNCHANGED <<query, remotePayload, fs, dlLocals, t, gaiadf, profile, fig,
                   log, first, reruns>>

\* A run() that opens its output before it reads its input.
ProcessReadOutputOpened ==
    /\ pc["ProcessData"] = "read"
    /\ log' = Append(log, LogEntry("Input VOTable file", "path", InputPath("ProcessData")))
    /\ fs' = [fs EXCEPT ![OutputPath("ProcessData")] = OpenTruncate(@)]
    /\ LET r == TableRead(fs[InputPath("ProcessData")].data)
       IN  IF r.ok
           THEN /\ t' = r.val
                /\ pc' = [pc EXCEPT !["ProcessData"] = "frame"]
           ELSE /\ t' = t
                /\ pc' = [pc EXCEPT !["ProcessData"] = "failed"]
    /\ UNCHANGED <<query, remotePayload, dlLocals, gaiadf, profile, fig,
                   writes, first, reruns>>

\* logger.info(...); t = Table.read(self.input().path, format='votable')
ProcessRead ==
    /\ pc["ProcessData"] = "read"
    /\ log' = Append(log, LogEntry("Input VOTable file", "path", InputPath("ProcessData")))
    /\ LET r == TableRead(fs[InputPath("ProcessData")].data)
       IN  IF r.ok
           THEN /\ t' = r.val
                /\ pc' = [pc EXCEPT !["ProcessData"] = "frame"]
           ELSE /\ t' = t
                /\ pc' = [pc EXCEPT !["ProcessData"] = "failed"]
    /\ UNCHANGED <<query, remotePayload, fs, dlLocals, gaiadf, profile, fig,
                   writes, first, reruns>>

\* The matrix, df = pd.DataFrame(b, columns=t.colnames), gaiadf =
\* df[gaiamagcols] and profile = ProfileReport(gaiadf).
ProcessFrame ==
    /\ pc["ProcessData"] = "frame"
    /\ LET b == BuildMatrix(t)
           df == IF b.ok THEN DataFrame(b.val, t.colnames) ELSE Raised
           sel == IF df.ok THEN SelectColumns(df.val, gaiamagcols) ELSE Raised
       IN  IF sel.ok
           THEN /\ gaiadf' = sel.val
                /\ profile' = ProfileReport(sel.val)
                /\ pc' = [pc EXCEPT !["ProcessData"] = "plot"]
           ELSE /\ UNCHANGED <<gaiadf, profile>>
                /\ pc' = [pc EXCEPT !["ProcessData"] = "failed"]
    /\ UNCHANGED <<query, remotePayload, fs, dlLocals, t, fig, log, writes,
                   first, reruns>>

\* The figure: the three columns of t by name, ordered by count.argsort().
ProcessPlot ==
    /\ pc["ProcessData"] = "plot"
    /\ LET x == Column(t, "ra_floor")
           y == Column(t, "dec_floor")
           count == Column(t, "nb")
           idx == Argsort(count)
       IN  fig' = Scatter(Take(x, idx), Take(y, idx), Take(count, idx))
    /\ pc' = [pc EXCEPT !["ProcessData"] = "context"]
    /\ UNCHANGED <<query, remotePayload, fs, dlLocals, t, gaiadf, profile, log,
                   writes, first, reruns>>

\* analysis_context, panda_str and encode_panda_str, each logged with its type.
ProcessContext ==
    /\ pc["ProcessData"] = "context"
    /\ LET context == AnalysisContext(gaiadf, profile)
       IN  log' = log \o
                <<LogEntry("analysis_context", "value", context),
                  LogEntry("analysis_context", "type", "dict"),
                  LogEntry("panda_str", "value", <<"json", context>>),
                  LogEntry("panda_str", "type", "str"),
                  LogEntry("encode_panda_str", "value", <<"utf-8", <<"json", context>>>>),
                  LogEntry("encode_panda_str", "type", "bytes")>>
    /\ pc' = [pc EXCEPT !["ProcessData"] = "dump"]
    /\ UNCHANGED <<query, remotePayload, fs, dlLocals, t, gaiadf, profile, fig,
                   writes, first, reruns>>

\* with open(self.output().path, 'w') as out: json.dump(mpld3.fig_to_dict(fig), out)
ProcessDump ==
    /\ pc["ProcessData"] = "dump"
    /\ \E elid \in ElementIds :
         LET path == OutputPath("ProcessData")
             file == FileWrite(OpenTruncate(fs[path]),
                               Dumped(fig, AnalysisContext(gaiadf, profile), elid))
         IN  /\ fs' = [fs EXCEPT ![path] = file]
             /\ first' = Remember("ProcessData", fs[InputPath("ProcessData")].data, file.data)
    /\ writes' = writes + 1
    /\ pc' = [pc EXCEPT !["ProcessData"] = "done"]
    /\ UNCHANGED <<query, remotePayload, dlLocals, t, gaiadf, profile, fig, log, reruns>>

\* -------------------------------------------------------------- re-runs
\* run() of a finished task invoked again, with the same parameters, over
\* the output directory as it stands; one task runs at a time.
Invoke(task, start) ==
    /\ pc[task] = "done"
    /\ \A other \in Tasks : ~Running(other)
    /\ reruns < MaxReruns
    /\ reruns' = reruns + 1
    /\ pc' = [pc EXCEPT ![task] = start]

DummyRerun ==
    /\ Invoke("DummyTask", "sleep")
    /\ UNCHANGED <<query, remotePayload, fs, dlLocals, prLocals, first>>

DownloadRerun ==
    /\ Invoke("DownloadData", "check")
    /\ job' = NoJob
    /\ result' = <<>>
    /\ events' = <<>>
    /\ UNCHANGED <<query, remotePayload, fs, prLocals, first>>

ProcessRerun ==
    /\ Invoke("ProcessData", "read")
    /\ writes' = 0
    /\ UNCHANGED <<query, remotePayload, fs, dlLocals, t, gaiadf, profile, fig,
                   log, first>>

Init ==
    /\ query \in QueryValues
    /\ remotePayload \in Payloads
    /\ fs = [p \in Paths |-> NoFile]
    /\ pc = [task \in Tasks |-> "idle"]
    /\ job = NoJob
    /\ result = <<>>
    /\ events = <<>>
    /\ t = [colnames |-> <<>>, rows |-> <<>>]
    /\ gaiadf = [columns |-> <<>>, rows |-> <<>>]
    /\ profile = [html |-> [nvar |-> 0, nobs |-> 0]]
    /\ fig = <<>>
    /\ log = <<>>
    /\ writes = 0
    /\ first = [task \in Tasks |-> [set |-> FALSE, input |-> <<>>, output |-> <<>>]]
    /\ reruns = 0

Next ==
    \/ DummyStart
    \/ DummyRun
    \/ DownloadStart
    \/ DownloadCheck
    \/ DownloadOpenJob
    \/ DownloadSubmit
    \/ DownloadPoll
    \/ DownloadRaise
    \/ DownloadFetch
    \/ DownloadWrite
    \/ DownloadDelete
    \/ RemoteComplete
    \/ RemoteFail
    \/ ProcessStart
    \/ ProcessRead
    \/ ProcessFrame
    \/ ProcessPlot
    \/ ProcessContext
    \/ ProcessDump

\* The statements of the running tasks, as opposed to the remote service.
TaskStep ==
    \/ DummyStart \/ DummyRun
    \/ DownloadStart \/ DownloadCheck \/ DownloadOpenJob \/ DownloadSubmit
    \/ DownloadPoll \/ DownloadRaise \/ DownloadFetch \/ DownloadWrite
    \/ DownloadDelete
    \/ ProcessStart \/ ProcessRead \/ ProcessFrame \/ ProcessPlot
    \/ ProcessContext \/ ProcessDump

NextRerun ==
    \/ Next
    \/ DummyRerun
    \/ DownloadRerun
    \/ ProcessRerun

\* One pipeline run from an empty output directory.
Spec == Init /\ [][Next]_vars

\* The same, with finished tasks run again.
SpecRerun == Init /\ [][NextRerun]_vars

\* One pipeline run in which the worker keeps executing the statements of
\* the task it runs; the remote service owes no progress.
SpecFair == Init /\ [][Next]_vars /\ WF_vars(TaskStep)

\* ------------------------------------------------------------ properties
DL == "DownloadData"
PR == "ProcessData"
DummyFile == fs[OutputPath("DummyTask")]
DownloadFile == fs[OutputPath("DownloadData")]
ProcessFile == fs[OutputPath("ProcessData")]

Count(seq, x) == Cardinality({ i \in DOMAIN seq : seq[i] = x })
IsPrefix(a, b) == Len(a) <= Len(b) /\ a = SubSeq(b, 1, Len(a))

\* The document has its field declarations and lacks one of the three columns.
LacksColumn(doc) ==
    /\ doc # <<>>
    /\ \E k \in DOMAIN gaiamagcols : gaiamagcols[k] \notin Range(Head(doc))

\* The document's columns are ra_floor, dec_floor and nb.
HasTheColumns(doc) ==
    /\ doc # <<>>
    /\ Len(Head(doc)) = 3
    /\ Range(Head(doc)) = Range(gaiamagcols)

\* The rows of the document as points (ra_floor, dec_floor, nb).
InputPoints(doc) ==
    LET table == [colnames |-> Head(doc), rows |-> Tail(doc)]
    IN  Scatter(Column(table, "ra_floor"), Column(table, "dec_floor"), Column(table, "nb"))

Ascending(points) ==
    \A i, j \in DOMAIN points : i < j => points[i].c <= points[j].c

IsPermutation(a, b) ==
    /\ Len(a) = Len(b)
    /\ \A p \in Range(a) \cup Range(b) : Count(a, p) = Count(b, p)

\* C1: with the query parameter missing or empty, DownloadData.run fails
\* before any network call: no job is created, run, fetched or deleted and
\* no output file is written.
C1_EmptyQueryFailsFirst ==
    query \in {NoQuery, ""} =>
        /\ job = NoJob
        /\ events = <<>>
        /\ ~DownloadFile.exists
        /\ pc[DL] \in {"idle", "check", "failed"}

C1_Witness == query = "" /\ pc[DL] = "failed"

\* C2: once DownloadData.run has written its output, the file's content is
\* exactly the payload the remote service returned, also when the file had
\* content before.
C2_OutputIsPayload ==
    pc[DL] \in {"delete", "done"} =>
        /\ DownloadFile.exists
        /\ DownloadFile.data = remotePayload

C2_Witness ==
    /\ pc[DL] = "done"
    /\ reruns > 0
    /\ events = JobSteps
    /\ Len(remotePayload) > 1
    /\ DownloadFile.data = remotePayload

\* C3: the stages execute in dependency order: DownloadData.run starts only
\* after DummyTask has completed, ProcessData.run only after DownloadData's
\* output exists; ProcessData's output implies DownloadData's, which implies
\* DummyTask's.
C3_DependencyOrder ==
    /\ pc[DL] # "idle" => pc["DummyTask"] = "done" /\ DummyFile.exists
    /\ pc[PR] # "idle" => pc[DL] = "done" /\ DownloadFile.exists
    /\ ProcessFile.exists => DownloadFile.exists
    /\ DownloadFile.exists => DummyFile.exists

C3_Witness == pc[PR] = "done" /\ ProcessFile.exists

\* C4: on an input table that lacks one of ra_floor, dec_floor, nb,
\* ProcessData.run fails and its output is neither created nor written.
C4_MissingColumnNoOutput ==
    LacksColumn(DownloadFile.data) =>
        /\ pc[PR] \in {"idle", "read", "frame", "failed"}
        /\ ~ProcessFile.exists
        /\ writes = 0

C4_Witness ==
    /\ pc[PR] = "failed"
    /\ LacksColumn(DownloadFile.data)
    /\ Len(DownloadFile.data) > 1
    /\ Len(Head(DownloadFile.data)) = 3

\* C5: on an input table with the columns ra_floor, dec_floor, nb and N rows
\* (N = 0 included), ProcessData.run writes a figure series of exactly N
\* points, a permutation of the rows ordered ascending by nb.
C5_SeriesOfEveryTable ==
    (HasTheColumns(DownloadFile.data) /\ pc[PR] \in {"done", "failed"}) =>
        /\ pc[PR] = "done"
        /\ Len(ProcessFile.data) = 1
        /\ Len(ProcessFile.data[1].data) = Len(DownloadFile.data) - 1
        /\ Ascending(ProcessFile.data[1].data)
        /\ IsPermutation(ProcessFile.data[1].data, InputPoints(DownloadFile.data))

\* C5 for the tables of at least one row.
C5_SeriesOfNonEmptyTable ==
    (HasTheColumns(DownloadFile.data) /\ Len(DownloadFile.data) > 1
        /\ pc[PR] \in {"done", "failed"}) =>
        /\ pc[PR] = "done"
        /\ Len(ProcessFile.data) = 1
        /\ Len(ProcessFile.data[1].data) = Len(DownloadFile.data) - 1
        /\ Ascending(ProcessFile.data[1].data)
        /\ IsPermutation(ProcessFile.data[1].data, InputPoints(DownloadFile.data))

C5_NonEmptyWitness ==
    /\ pc[PR] = "done"
    /\ Len(DownloadFile.data) = 3
    /\ ProcessFile.data[1].data # InputPoints(DownloadFile.data)
    /\ ProcessFile.data[1].data[1].c = ProcessFile.data[1].data[2].c

\* A task has run again to its end on the input of its first run.
RanAgain(task, input) ==
    /\ pc[task] = "done"
    /\ first[task].set
    /\ first[task].input = input

\* C6: a stage run again with the same parameters and inputs over its
\* populated output path leaves the output byte-identical to the first run's.
C6_RerunByteIdentical ==
    /\ RanAgain("DummyTask", <<>>) => DummyFile.data = first["DummyTask"].output
    /\ RanAgain(DL, result) => DownloadFile.data = first[DL].output
    /\ RanAgain(PR, DownloadFile.data) => ProcessFile.data = first[PR].output

\* C6 as amended: DummyTask's and DownloadData's outputs are byte-identical
\* on a re-run; ProcessData's has the same data series and differs at most
\* in the element id of the figure.
C6_RerunSameContent ==
    /\ RanAgain("DummyTask", <<>>) => DummyFile.data = first["DummyTask"].output
    /\ RanAgain(DL, result) => DownloadFile.data = first[DL].output
    /\ RanAgain(PR, DownloadFile.data) =>
          /\ Len(ProcessFile.data) = Len(first[PR].output)
          /\ \A i \in DOMAIN ProcessFile.data :
                /\ DOMAIN ProcessFile.data[i] = DOMAIN first[PR].output[i]
                /\ ProcessFile.data[i].data = first[PR].output[i].data

C6_Witness ==
    /\ reruns > 0
    /\ RanAgain(PR, DownloadFile.data)
    /\ ProcessFile.data # first[PR].output
    /\ ProcessFile.data[1].data = first[PR].output[1].data
    /\ Len(DownloadFile.data) > 1

\* C7: the analysis context is computed and logged but not written: the
\* output holds the figure serialization only, written once, as the last
\* step of a successful run.
C7_OnlyFigureWritten ==
    /\ pc[PR] \in {"read", "frame", "plot", "context", "dump", "failed"} =>
          writes = 0 /\ ~ProcessFile.exists
    /\ pc[PR] = "done" =>
          /\ writes = 1
          /\ Len(ProcessFile.data) = 1
          /\ DOMAIN ProcessFile.data[1] = {"id", "data"}
          /\ ProcessFile.data[1].data = fig
          /\ \E i \in DOMAIN log :
                /\ log[i].label = "analysis_context"
                /\ log[i].kind = "value"
                /\ log[i].val = AnalysisContext(gaiadf, profile)

C7_Witness ==
    /\ pc[PR] = "done"
    /\ writes = 1
    /\ Len(fig) = 2
    /\ Len(log) = 7

\* C8: a successful DownloadData.run opens the job, runs it, fetches the
\* result, writes the output and deletes the job, in this order and each
\* once; a job is deleted only after its result is fetched and persisted.
C8_JobStepsInOrder ==
    /\ IsPrefix(events, JobSteps)
    /\ pc[DL] = "done" => events = JobSteps /\ job.phase = "DELETED"
    /\ job.phase = "DELETED" =>
          /\ result = job.result
          /\ DownloadFile.exists
          /\ DownloadFile.data = job.result

C8_Witness == pc[DL] = "done" /\ events = JobSteps /\ job.phase = "DELETED"

\* C9: a remote error aborts DownloadData.run without retry: the job is
\* submitted at most once, and after the failure nothing is fetched, written
\* or deleted and ProcessData never runs.
C9_RemoteErrorAborts ==
    /\ Count(events, "run") <= 1
    /\ job.phase = "ERROR" =>
          /\ pc[DL] \in {"wait", "raise", "failed"}
          /\ events = <<"open", "run">>
          /\ ~DownloadFile.exists
          /\ pc[PR] = "idle"

C9_Witness == job.phase = "ERROR" /\ pc[DL] = "failed"

\* C10: DownloadData.run has no timeout: it leaves its wait only once the
\* remote job has ended, while the job has not ended nothing is written and
\* ProcessData does not start, and once the job has ended the stage ends.
C10_EndsIffJobEnds ==
    /\ [](pc[DL] \in {"raise", "fetch", "write", "delete", "done"}
            => job.phase \in {"COMPLETED", "ERROR", "DELETED"})
    /\ [](job.phase \in {"PENDING", "EXECUTING"}
            => Running(DL) /\ ~DownloadFile.exists /\ pc[PR] = "idle")
    /\ ((pc[DL] = "wait" /\ Terminal(job.phase)) ~> (pc[DL] \in {"done", "failed"}))

C10_Witness == pc[DL] = "done" /\ job.phase = "DELETED" /\ pc[PR] = "done"

C10_HangWitness == pc[DL] = "wait" /\ job.phase = "EXECUTING"
====
